---- MODULE Spec2Model ----
(***************************************************************************)
(* State-machine model of the RFP assistant: the resilient model client    *)
(* (agents/base_agent.py), the agent run path (app.py), the embedding      *)
(* index builder and listing (generate_doc_ui.py, chatbot.py) and the RAG  *)
(* content aggregator (generate_doc_ui.py).                                *)
(*                                                                         *)
(* Each component has its own specification (SpecGemini, SpecBuild,        *)
(* SpecRag); the variables of the other components stay at their initial   *)
(* values under it.                                                        *)
(***************************************************************************)
EXTENDS Integers, Sequences, FiniteSets, TLC

VARIABLES
    \* ---- GeminiAgent.call_gemini (agents/base_agent.py) ----
    g_pc,        \* "idle" | "loop" (at the head of the for loop) | "returned"
    retries,     \* the retries argument
    delay0,      \* the delay argument as passed
    delay,       \* the local delay, doubled after each retryable failure
    attempt,     \* the loop variable: number of completed retryable failures
    calls,       \* provider calls (generate_content) made by this call
    sleeps,      \* the durations passed to time.sleep, in order
    outcomes,    \* per attempt, what generate_content did (an element of Events)
    g_result,    \* the returned string
    g_end,       \* "none" | "success" | "fatal" | "exhausted"
    g_raised,    \* TRUE iff an exception escaped call_gemini
    \* ---- run_agent_single and the display of its result (app.py) ----
    r_pc,        \* "none" | "invoking" | "shown"
    r_result,    \* what run_agent_single returned
    r_chunks,    \* the chunks argument of run_agent_single
    r_invokes,   \* the documents passed to agent.invoke by the run, in order
    ui,          \* the Streamlit status messages shown for the run
    \* ---- save_vector_store / list_processed_documents ----
    fs,          \* faiss_index/: folder id -> [dir, index, meta]
    b_pc,        \* "idle" | "loop" | "returned" | "raised" | "fellthrough"
    b_variant,   \* which module's save_vector_store runs: "generate_doc_ui" | "chatbot"
    b_folder,    \* folder_id of the running (or last) call
    b_attempt,   \* the loop variable of the retry loop
    b_delay,     \* retry_delay
    b_sleeps,    \* durations passed to time.sleep by the call, in order
    b_outcomes,  \* per attempt of the call, how it went (an element of BuildOutcomes)
    b_exc,       \* the failure the call raised to its caller ("none" if none)
    nbuilds,     \* number of save_vector_store calls so far
    returned,    \* folder ids returned by the calls so far, in order
    completed,   \* folder ids for which an attempt wrote both the index and metadata.json
    listing,     \* last result of list_processed_documents
    \* ---- answer_question / get_rag_content (generate_doc_ui.py) ----
    rag_pc,      \* "idle" | "loop" (in the for loop over queries) | "returned"
    rag_i,       \* index in Keys of the question being asked (6: none left)
    rag_content, \* the rag_content dict: section key -> answer
    rag_raised,  \* TRUE iff an exception escaped get_rag_content
    rag_log,     \* per question asked so far: [key, raised, answer]
    q_attempt,   \* the loop variable of answer_question's retry loop
    q_delay,     \* answer_question's retry_delay
    q_sleeps,    \* durations passed to time.sleep during the running answer_question
    q_loadtries, \* FAISS.load_local calls made during the running answer_question
    q_last,      \* the last finished answer_question: [raised, loadtries, sleeps]
    rag_folder,  \* the folder_name argument of get_rag_content
    \* ---- load_vector_store / answer_question, called on their own (chat path) ----
    cache,       \* st.cache_resource of each module's load_vector_store: module -> folder ids
    loads,       \* folder id -> number of times FAISS.load_local returned its index
    qa_pc,       \* "idle" | "loop" | "returned" | "raised"
    qa_module,   \* the module whose answer_question runs: "generate_doc_ui" | "chatbot"
    qa_folder,   \* the folder_name argument
    qa_attempt,  \* the loop variable of answer_question's retry loop
    qa_delay,    \* answer_question's retry_delay
    qa_sleeps,   \* durations passed to time.sleep during the call, in order
    qa_loadtries,\* FAISS.load_local calls made during the call
    qa_outcomes, \* per attempt of the try body: [load, chain]
    qa_result,   \* the returned answer
    qa_exc,      \* the failure raised to the caller ("none" if none)
    nq,          \* number of answer_question calls so far
    \* ---- text extraction: parse_file, get_pdf_text ----
    x_pc,        \* "idle" | "done"
    x_op,        \* the function that ran: "parse_file" | "get_pdf_text"
    x_name,      \* parse_file: the name of the file at file_path
    x_docs,      \* the documents read: each a list of pages (PDF) or paragraphs (DOCX)
    x_broken,    \* parse_file: whether the file is one its parser cannot open
    x_calls,     \* the parsers called, in order
    x_result,    \* the returned text
    x_exc,       \* the exception raised to the caller ("none" if none)
    \* ---- chunk_text ----
    c_pc,        \* "idle" | "done"
    c_text,      \* the text argument, a sequence of characters
    c_size,      \* chunk_size
    c_overlap,   \* chunk_overlap
    c_chunks,    \* the returned list of chunks
    \* ---- the analyzer's feedback flow and the feedback log ----
    f_log,       \* logs/feedback_log.jsonl: its content, a sequence of text fragments
    f_shown,     \* the feedback widgets the last script run rendered
    f_clicks,    \* per script run so far, the widget whose click triggered it
    f_result,    \* result of the agent run of the last script run
    f_calls,     \* number of log_feedback calls so far
    \* ---- generate_proposal_document ----
    p_pc,        \* "idle" | "returned" | "raised"
    p_content,   \* the content map handed over: section key -> text
    p_doc        \* the body paragraphs of the document, in order

gvars == <<g_pc, retries, delay0, delay, attempt, calls, sleeps, outcomes,
           g_result, g_end, g_raised, r_pc, r_result, ui,
                   r_chunks, r_invokes>>

bvars == <<fs, b_pc, b_variant, b_folder, b_attempt, b_delay, b_sleeps, b_outcomes,
           b_exc, nbuilds, returned, completed, listing>>

ragvars == <<rag_pc, rag_i, rag_content, rag_raised, rag_log, q_attempt, q_delay, q_sleeps,
             q_loadtries, q_last, rag_folder>>

\* The state of one answer_question call of the chat path, and with it the cache
\* and the load counts, which every caller of load_vector_store shares.
qacall == <<qa_pc, qa_module, qa_folder, qa_attempt, qa_delay, qa_sleeps,
            qa_loadtries, qa_outcomes, qa_result, qa_exc, nq>>

qavars == <<cache, loads, qacall>>

xvars == <<x_pc, x_op, x_name, x_docs, x_broken, x_calls, x_result, x_exc>>

cvars == <<c_pc, c_text, c_size, c_overlap, c_chunks>>

fvars == <<f_log, f_shown, f_clicks, f_result, f_calls>>

pvars == <<p_pc, p_content, p_doc>>

vars == <<gvars, bvars, ragvars, qavars, xvars, cvars, fvars, pvars>>

\* What the actions of one component leave alone.
notGemini == <<bvars, ragvars, qavars, xvars, cvars, fvars, pvars>>
notBuild == <<gvars, ragvars, qavars, xvars, cvars, fvars, pvars>>
notRag == <<gvars, bvars, qacall, xvars, cvars, fvars, pvars>>
notQa == <<gvars, bvars, ragvars, xvars, cvars, fvars, pvars>>
notExtract == <<gvars, bvars, ragvars, qavars, cvars, fvars, pvars>>
notChunk == <<gvars, bvars, ragvars, qavars, xvars, fvars, pvars>>
notFeedback == <<gvars, bvars, ragvars, qavars, xvars, cvars, pvars>>
notProposal == <<gvars, bvars, ragvars, qavars, xvars, cvars, fvars>>

----------------------------------------------------------------------------
(* Bounds *)

\* Largest retries argument explored for a direct call of call_gemini.
MaxRetries == 5

\* Number of save_vector_store calls explored.
MaxBuilds == 2

\* Number of distinct values of uuid.uuid4().hex[:6] explored (16^6 in the program).
NumSuffixes == 2

\* Number of answer_question calls explored on the chat path.
MaxQuestions == 2

\* Longest document (in pages or paragraphs) given to the text extractors.
MaxPages == 3

\* Number of script runs of the analyzer page explored.
MaxRuns == 4

\* Longest text (in characters) and largest chunk_size given to chunk_text.
MaxTextLen == 5
MaxChunkSize == 4

(* Program constants *)

max_retries == 3
retry_delay == 2

DefaultRetries == 5
DefaultDelay == 41

----------------------------------------------------------------------------
(* Strings are sequences of one-character strings. *)

WS == {" ", "\n"}

RECURSIVE LStrip(_)
LStrip(s) == IF s = <<>> THEN s
             ELSE IF Head(s) \in WS THEN LStrip(Tail(s)) ELSE s

RECURSIVE RStrip(_)
RStrip(s) == IF s = <<>> THEN s
             ELSE IF s[Len(s)] \in WS THEN RStrip(SubSeq(s, 1, Len(s) - 1)) ELSE s

\* str.strip()
Strip(s) == RStrip(LStrip(s))

RECURSIVE Join(_)
\* "".join(parts)
Join(parts) == IF parts = <<>> THEN <<>> ELSE Head(parts) \o Join(Tail(parts))

\* Whether sequence p occurs in sequence s as a contiguous run (Python's p in s).
Contains(p, s) ==
    \E i \in 0..(Len(s) - Len(p)) : SubSeq(s, i + 1, i + Len(p)) = p

----------------------------------------------------------------------------
(* The provider: what one generate_content call can do. *)

Texts == { <<>>, <<" ">>, <<"a">>, <<" ", "a", "\n">>, <<"a", " ", "b">> }

NoResponse == [candidates |-> "none", shape |-> "other", text |-> <<>>, parts |-> <<>>]

\* A response: its candidates ("none": an empty list; otherwise the first
\* candidate's finish_reason) and which accessor it offers.
\* Policy rejections: no candidates, or a first candidate stopped for recitation.
RejectedResponses ==
    [candidates : {"none", "RECITATION"}, shape : {"text"},
     text : {<<>>, <<"a">>}, parts : {<<>>}]

AnsweredResponses ==
         [candidates : {"STOP"}, shape : {"text"}, text : Texts, parts : {<<>>}]
    \cup [candidates : {"STOP"}, shape : {"parts"},
          text : {<<>>}, parts : {<< <<"a">>, <<" ">> >>, << <<" ">>, <<"b">> >>}]
    \cup [candidates : {"STOP"}, shape : {"other"},
          text : {<<"r">>}, parts : {<<>>}]

Responses == RejectedResponses \cup AnsweredResponses

\* str(e) of the exceptions the provider raises, as sequences of message parts.
PartMsg == "requires the response to contain a valid Part"

\* Exceptions carrying the content-safety / recitation block signal.
BlockExceptions ==
    { <<"The response.text accessor ", PartMsg, " but none were returned">>,
      <<"candidate ", "finish_reason", " is 4">> }

\* Network, rate-limit and other provider errors, among them the rejection of a
\* prompt longer than the context window.
OversizedMsg == <<"400 The input token count exceeds the maximum number of tokens allowed">>
TransientExceptions == { <<"429 quota exceeded">>, <<"503 unavailable">>, OversizedMsg }

Exceptions == BlockExceptions \cup TransientExceptions

\* What one generate_content call does: returns a response or raises.
Events ==
         [kind : {"resp"}, resp : Responses, msg : {<<>>}]
    \cup [kind : {"exc"}, resp : {NoResponse}, msg : Exceptions]

RespEvent(resp) == [kind |-> "resp", resp |-> resp, msg |-> <<>>]
ExcEvent(e) == [kind |-> "exc", resp |-> NoResponse, msg |-> e]

\* base_agent.py line 75
IsBlockSignalNever(e) == FALSE
IsBlockSignal(e) ==
    \E i \in DOMAIN e : e[i] = PartMsg \/ e[i] = "finish_reason"

\* base_agent.py lines 59-65
IsBlockedResponseNever(resp) == FALSE
IsBlockedResponse(resp) ==
    \/ resp.candidates = "none"
    \/ resp.candidates = "RECITATION"

\* base_agent.py lines 67-72
ResponseTextRaw(resp) ==
    IF resp.shape = "text" THEN resp.text
    ELSE IF resp.shape = "parts" THEN Join(resp.parts)
    ELSE resp.text
ResponseText(resp) ==
    IF resp.shape = "text" THEN Strip(resp.text)
    ELSE IF resp.shape = "parts" THEN Join(resp.parts)
    ELSE resp.text

\* base_agent.py line 81
NextDelayConstant(d) == d
NextDelay(d) == d * 2

----------------------------------------------------------------------------
(* GeminiAgent.call_gemini *)

GInit ==
    /\ g_pc = "idle"
    /\ retries = 0
    /\ delay0 = 0
    /\ delay = 0
    /\ attempt = 0
    /\ calls = 0
    /\ sleeps = <<>>
    /\ outcomes = <<>>
    /\ g_result = <<>>
    /\ g_end = "none"
    /\ g_raised = FALSE
    /\ r_pc = "none"
    /\ r_result = <<>>
    /\ r_chunks = <<>>
    /\ r_invokes = <<>>
    /\ ui = {}

\* Entry of call_gemini(prompt, retries=n, delay=d).
call_gemini_enter(n, d) ==
    /\ g_pc' = "loop"
    /\ retries' = n
    /\ delay0' = d
    /\ delay' = d
    /\ attempt' = 0
    /\ calls' = 0
    /\ sleeps' = <<>>
    /\ outcomes' = <<>>
    /\ g_result' = <<>>
    /\ g_end' = "none"
    /\ g_raised' = FALSE

\* A direct call of call_gemini with explicit arguments.
call_gemini(n, d) ==
    /\ g_pc = "idle"
    /\ r_pc = "none"
    /\ call_gemini_enter(n, d)
    /\ UNCHANGED <<r_pc, r_result, ui,
                   r_chunks, r_invokes>>
    /\ UNCHANGED notGemini

\* The call returns s.
call_gemini_return(s, how) ==
    /\ g_pc' = "returned"
    /\ g_result' = s
    /\ g_end' = how
    /\ UNCHANGED <<delay, attempt, sleeps>>

\* One iteration of the for loop whose generate_content returns a response.
call_gemini_response(resp) ==
    /\ g_pc = "loop"
    /\ attempt < retries
    /\ calls' = calls + 1
    /\ outcomes' = Append(outcomes, RespEvent(resp))
    /\ IF IsBlockedResponse(resp)
       THEN call_gemini_return(<<>>, "fatal")
       ELSE call_gemini_return(ResponseText(resp), "success")
    /\ UNCHANGED <<retries, delay0, g_raised, r_pc, r_result, ui,
                   r_chunks, r_invokes>>
    /\ UNCHANGED notGemini

\* One iteration of the for loop whose body raises exception e.
call_gemini_exception_no_final_sleep(e) ==
    /\ g_pc = "loop"
    /\ attempt < retries
    /\ calls' = calls + 1
    /\ outcomes' = Append(outcomes, ExcEvent(e))
    /\ IF IsBlockSignal(e)
       THEN call_gemini_return(<<>>, "fatal")
       ELSE /\ sleeps' = IF attempt < retries - 1 THEN Append(sleeps, delay) ELSE sleeps
            /\ delay' = NextDelay(delay)
            /\ attempt' = attempt + 1
            /\ UNCHANGED <<g_pc, g_result, g_end>>
    /\ UNCHANGED <<retries, delay0, g_raised, r_pc, r_result, ui,
                   r_chunks, r_invokes>>
    /\ UNCHANGED notGemini
call_gemini_exception(e) ==
    /\ g_pc = "loop"
    /\ attempt < retries
    /\ calls' = calls + 1
    /\ outcomes' = Append(outcomes, ExcEvent(e))
    /\ IF IsBlockSignal(e)
       THEN call_gemini_return(<<>>, "fatal")
       ELSE /\ sleeps' = Append(sleeps, delay)
            /\ delay' = NextDelay(delay)
            /\ attempt' = attempt + 1
            /\ UNCHANGED <<g_pc, g_result, g_end>>
    /\ UNCHANGED <<retries, delay0, g_raised, r_pc, r_result, ui,
                   r_chunks, r_invokes>>
    /\ UNCHANGED notGemini

\* The for loop is exhausted (base_agent.py lines 83-84).
call_gemini_exhausted_reraise ==
    /\ g_pc = "loop"
    /\ attempt >= retries
    /\ g_pc' = "returned"
    /\ g_end' = "exhausted"
    /\ g_raised' = (retries > 0)
    /\ UNCHANGED <<retries, delay0, delay, attempt, calls, sleeps, outcomes,
                   g_result, r_pc, r_result, ui,
                   r_chunks, r_invokes>>
    /\ UNCHANGED notGemini
call_gemini_exhausted ==
    /\ g_pc = "loop"
    /\ attempt >= retries
    /\ call_gemini_return(<<>>, "exhausted")
    /\ UNCHANGED <<retries, delay0, calls, outcomes, g_raised, r_pc, r_result, ui,
                   r_chunks, r_invokes>>
    /\ UNCHANGED notGemini

----------------------------------------------------------------------------
(* create_agent(...).invoke and run_agent_single (app.py) *)

\* The chunk lists an agent is run on (chunk_text returns [] for an empty text).
ChunkLists == { <<>>, <<<<"a">>>>, <<<<"a">>, <<"b">>>>, <<<<"b">>, <<"a">>>>,
                <<<<"a">>, <<"b">>, <<"c">>>> }

RECURSIVE JoinWith(_, _)
\* sep.join(parts)
JoinWith(sep, parts) ==
    IF parts = <<>> THEN <<>>
    ELSE IF Len(parts) = 1 THEN parts[1]
    ELSE parts[1] \o sep \o JoinWith(sep, Tail(parts))

\* app.py lines 69-74: the input payloads that agent.invoke is called with.
DispatchPerChunk(chunks) == chunks
Dispatch(chunks) == << JoinWith(<<"\n\n">>, chunks) >>

\* run_agent_single calls agent.invoke, which formats the prompt and calls
\* call_gemini(prompt, temperature=temperature) with the default retries and delay.
run_agent_single(chunks) ==
    /\ g_pc = "idle"
    /\ r_pc = "none"
    /\ r_pc' = "invoking"
    /\ r_chunks' = chunks
    /\ r_invokes' = Dispatch(chunks)
    /\ call_gemini_enter(DefaultRetries, DefaultDelay)
    /\ UNCHANGED <<r_result, ui>>
    /\ UNCHANGED notGemini

\* What the script shows once run_agent_single has returned (app.py lines 115-116).
ShowResult(msgs, result) == msgs \cup {"success"}

\* invoke returns {"text": ...} (or raises); run_agent_single returns the text
\* (or shows the error and returns str(e)); the script then shows the result.
run_agent_single_show ==
    /\ r_pc = "invoking"
    /\ g_pc = "returned"
    /\ r_pc' = "shown"
    /\ r_result' = IF g_raised THEN <<"e">> ELSE g_result
    /\ ui' = ShowResult(IF g_raised THEN ui \cup {"error"} ELSE ui, r_result')
    /\ UNCHANGED <<g_pc, retries, delay0, delay, attempt, calls, sleeps, outcomes,
                   g_result, g_end, g_raised, r_chunks, r_invokes>>
    /\ UNCHANGED notGemini

----------------------------------------------------------------------------
(* The embedding index builder: save_vector_store, list_processed_documents *)

DocNames == {"rfp", "bid"}
Suffixes == 1..NumSuffixes

\* folder_id = f"{doc_name}_{uuid.uuid4().hex[:6]}": the name and the 6 hex digits.
FolderId(doc_name, suffix) == <<doc_name, suffix>>
FolderIds == {FolderId(n, x) : n \in DocNames, x \in Suffixes}

\* A file or file set on disk: absent, partly written, or whole; `by` is the
\* number of the save_vector_store call that wrote it last.
NoFile == [state |-> "none", by |-> 0]
NoDir == [dir |-> FALSE, index |-> NoFile, meta |-> NoFile]

\* How one attempt of the try body goes.
BuildOutcomes ==
    { "embed_fail",         \* GoogleGenerativeAIEmbeddings / FAISS.from_texts raises
      "save_fail",          \* save_local raises before writing anything
      "save_partial",       \* save_local raises after writing part of the index files
      "meta_open_fail",     \* open(metadata.json, "w") raises
      "meta_write_fail",    \* json.dump / close raises: the file was created or truncated
      "ok" }

BInit ==
    /\ fs = [f \in FolderIds |-> NoDir]
    /\ b_pc = "idle"
    /\ b_variant = "generate_doc_ui"
    /\ b_folder = FolderId("rfp", 1)
    /\ b_attempt = 0
    /\ b_delay = 0
    /\ b_sleeps = <<>>
    /\ b_outcomes = <<>>
    /\ b_exc = "none"
    /\ nbuilds = 0
    /\ returned = <<>>
    /\ completed = {}
    /\ listing = [raised |-> FALSE, docs |-> {}]

\* A builder that removes the directory of an attempt that failed.
AfterAttemptCleanup(disk, f, o, n) ==
    IF o = "ok"
    THEN [disk EXCEPT ![f] = [dir |-> TRUE, index |-> [state |-> "ok", by |-> n],
                                            meta |-> [state |-> "ok", by |-> n]]]
    ELSE [disk EXCEPT ![f] = NoDir]

\* The disk after the try body ran with outcome o in folder f (call number n).
AfterAttempt(disk, f, o, n) ==
    LET d == disk[f]
        whole == [state |-> "ok", by |-> n]
        part == [state |-> "partial", by |-> n]
    IN  [disk EXCEPT ![f] =
            CASE o = "embed_fail" -> d
              [] o = "save_fail" -> d
              [] o = "save_partial" -> [d EXCEPT !.index = part]
              [] o = "meta_open_fail" -> [d EXCEPT !.index = whole]
              [] o = "meta_write_fail" -> [d EXCEPT !.index = whole, !.meta = part]
              [] o = "ok" -> [d EXCEPT !.index = whole, !.meta = whole]]

\* generate_doc_ui.py line 61
ShouldRetryOffByOne(a) == a < max_retries
ShouldRetry(a) == a < max_retries - 1

\* Entry of save_vector_store(text_chunks, doc_name): the folder id is drawn and the
\* directory is created (os.makedirs(..., exist_ok=True)).
save_vector_store(variant, doc_name, suffix) ==
    /\ b_pc \in {"idle", "returned", "raised"}
    /\ nbuilds < MaxBuilds
    /\ nbuilds' = nbuilds + 1
    /\ b_variant' = variant
    /\ b_folder' = FolderId(doc_name, suffix)
    /\ fs' = [fs EXCEPT ![FolderId(doc_name, suffix)].dir = TRUE]
    /\ b_pc' = "loop"
    /\ b_attempt' = 0
    /\ b_delay' = retry_delay
    /\ b_sleeps' = <<>>
    /\ b_outcomes' = <<>>
    /\ b_exc' = "none"
    /\ UNCHANGED <<returned, completed, listing>>
    /\ UNCHANGED notBuild

\* One iteration of the retry loop of generate_doc_ui.save_vector_store.
save_vector_store_attempt(o) ==
    /\ b_pc = "loop"
    /\ b_variant = "generate_doc_ui"
    /\ b_attempt < max_retries
    /\ fs' = AfterAttempt(fs, b_folder, o, nbuilds)
    /\ b_outcomes' = Append(b_outcomes, o)
    /\ IF o = "ok"
       THEN /\ b_pc' = "returned"
            /\ returned' = Append(returned, b_folder)
            /\ completed' = completed \cup {b_folder}
            /\ UNCHANGED <<b_attempt, b_delay, b_sleeps, b_exc>>
       ELSE /\ IF ShouldRetry(b_attempt)
               THEN /\ b_sleeps' = Append(b_sleeps, b_delay)
                    /\ b_delay' = b_delay * 2
                    /\ b_attempt' = b_attempt + 1
                    /\ b_pc' = IF b_attempt + 1 < max_retries THEN "loop" ELSE "fellthrough"
                    /\ b_exc' = b_exc
               ELSE /\ b_pc' = "raised"
                    /\ b_exc' = o
                    /\ UNCHANGED <<b_attempt, b_delay, b_sleeps>>
            /\ UNCHANGED <<returned, completed>>
    /\ UNCHANGED <<b_variant, b_folder, nbuilds, listing>>
    /\ UNCHANGED notBuild

\* The body of chatbot.save_vector_store: one attempt, no try/except.
chatbot_save_vector_store_body(o) ==
    /\ b_pc = "loop"
    /\ b_variant = "chatbot"
    /\ fs' = AfterAttempt(fs, b_folder, o, nbuilds)
    /\ b_outcomes' = Append(b_outcomes, o)
    /\ IF o = "ok"
       THEN /\ b_pc' = "returned"
            /\ returned' = Append(returned, b_folder)
            /\ completed' = completed \cup {b_folder}
            /\ b_exc' = b_exc
       ELSE /\ b_pc' = "raised"
            /\ b_exc' = o
            /\ UNCHANGED <<returned, completed>>
    /\ UNCHANGED <<b_variant, b_folder, b_attempt, b_delay, b_sleeps, nbuilds, listing>>
    /\ UNCHANGED notBuild

\* list_processed_documents(): the directories that hold a metadata.json; json.load
\* raises on a metadata.json that is not whole.
ListedDirsOnly(disk) == {f \in FolderIds : disk[f].dir}
Listed(disk) == {f \in FolderIds : disk[f].dir /\ disk[f].meta.state # "none"}

ListingOf(disk) ==
    IF \E f \in Listed(disk) : disk[f].meta.state = "partial"
    THEN [raised |-> TRUE, docs |-> {}]
    ELSE [raised |-> FALSE, docs |-> {<<f[1], f>> : f \in Listed(disk)}]

list_processed_documents ==
    /\ b_pc \in {"idle", "returned", "raised"}
    /\ listing' = ListingOf(fs)
    /\ UNCHANGED <<fs, b_pc, b_variant, b_folder, b_attempt, b_delay, b_sleeps,
                   b_outcomes, b_exc, nbuilds, returned, completed>>
    /\ UNCHANGED notBuild


BNext ==
    \/ \E v \in {"generate_doc_ui", "chatbot"}, n \in DocNames, x \in Suffixes :
           save_vector_store(v, n, x)
    \/ \E o \in BuildOutcomes : save_vector_store_attempt(o)
    \/ \E o \in BuildOutcomes : chatbot_save_vector_store_body(o)
    \/ list_processed_documents

----------------------------------------------------------------------------
(* The disk that questions are asked against *)

\* The folders questions are asked about: one that a build may have written, and
\* one that no build ever created.
BuiltFolder == FolderId("rfp", 1)
MissingFolder == FolderId("bid", 1)
AskedFolders == {BuiltFolder, MissingFolder}

\* What save_vector_store can leave in a folder (see AfterAttempt): nothing, the
\* bare directory, a partly written index, the index without metadata.json, the
\* index with a broken metadata.json, both artifacts, and (after a later build
\* drew the same folder id and failed in save_local) old metadata beside a partly
\* written index.
FolderStates ==
    { NoDir,
      [dir |-> TRUE, index |-> NoFile, meta |-> NoFile],
      [dir |-> TRUE, index |-> [state |-> "partial", by |-> 1], meta |-> NoFile],
      [dir |-> TRUE, index |-> [state |-> "ok", by |-> 1], meta |-> NoFile],
      [dir |-> TRUE, index |-> [state |-> "ok", by |-> 1],
                     meta |-> [state |-> "partial", by |-> 1]],
      [dir |-> TRUE, index |-> [state |-> "ok", by |-> 1],
                     meta |-> [state |-> "ok", by |-> 1]],
      [dir |-> TRUE, index |-> [state |-> "partial", by |-> 2],
                     meta |-> [state |-> "ok", by |-> 1]] }

\* The disk when questions are asked: BuiltFolder in any state a build leaves.
DiskStates ==
    {[f \in FolderIds |-> IF f = BuiltFolder THEN d ELSE NoDir] : d \in FolderStates}

\* FAISS.load_local succeeds on a folder holding whole index files; it does not
\* read metadata.json.
Loadable(d) == d.dir /\ d.index.state = "ok"

\* The modules that have a load_vector_store and an answer_question.
Modules == {"generate_doc_ui", "chatbot"}

\* How load_vector_store goes in one attempt of answer_question's try body:
\* -1: the folder is in the module's cache (no load); k in 1..3: FAISS.load_local
\* returns on the k-th attempt of load_vector_store's own loop; 0: it raises
\* (generate_doc_ui: after 3 attempts; chatbot: after its only attempt).
LoadOutcomes(m, f) ==
    IF f \in cache[m] THEN {-1}
    ELSE IF Loadable(fs[f])
         THEN IF m = "generate_doc_ui" THEN 0..max_retries ELSE 0..1
         ELSE {0}

\* A load_vector_store that gives up after its first FAISS.load_local call.
LoadTriesOnce(m, lo) == IF lo = -1 THEN 0 ELSE IF lo = 0 THEN 1 ELSE lo

\* FAISS.load_local calls made by load_vector_store for outcome lo.
LoadTries(m, lo) ==
    IF lo = -1 THEN 0
    ELSE IF lo = 0 THEN (IF m = "generate_doc_ui" THEN max_retries ELSE 1)
    ELSE lo

\* The sleeps of load_vector_store's retry loop for outcome lo: one per failed
\* attempt but the last, starting at retry_delay and doubling.
RECURSIVE Backoff(_, _)
Backoff(n, d) == IF n = 0 THEN <<>> ELSE <<d>> \o Backoff(n - 1, d * 2)

LoadSleeps(m, lo) ==
    IF m = "chatbot" \/ lo = -1 THEN <<>>
    ELSE IF lo = 0 THEN Backoff(max_retries - 1, retry_delay)
    ELSE Backoff(lo - 1, retry_delay)

\* The cache after load_vector_store went with outcome lo: st.cache_resource keeps
\* the returned index under the function and its argument, and keeps no failure.
CacheAfter(c, m, f, lo) == IF lo >= 1 THEN [c EXCEPT ![m] = @ \cup {f}] ELSE c

LoadsAfter(l, f, lo) == IF lo >= 1 THEN [l EXCEPT ![f] = @ + 1] ELSE l

----------------------------------------------------------------------------
(* The RAG content aggregator: answer_question, get_rag_content *)

\* The keys of `queries`, in the order the for loop visits them.
Keys == <<"executive_summary", "approach", "qualifications", "implementation",
          "quality_control">>

\* Answers are sequences of text fragments; Phrase is the fragment the aggregator
\* looks for, Sentinel the sentence the QA prompt tells the model to say.
Phrase == "not available in the context"
Sentinel == <<"Answer is ", Phrase, ".">>

Answers == { <<>>,
             Sentinel,
             <<"The budget is 5M. The deadline is ", Phrase, ".">>,
             <<"Three phases.">>,
             <<"ISO 9001 audits.">> }

\* How one attempt of answer_question's try body can fail.
QuestionFailures == {"load_fail", "chain_fail"}

\* q_last before any answer_question call has finished.
NoCall == [raised |-> FALSE, loadtries |-> 0, sleeps |-> <<>>]

RagInit ==
    /\ rag_pc = "idle"
    /\ rag_i = 1
    /\ rag_content = <<>>
    /\ rag_raised = FALSE
    /\ rag_log = <<>>
    /\ q_attempt = 0
    /\ q_delay = retry_delay
    /\ q_sleeps = <<>>
    /\ q_loadtries = 0
    /\ q_last = NoCall
    /\ rag_folder = BuiltFolder

\* generate_doc_ui.py line 178
StoredIfNonEmpty(answer) == answer # <<>>
Stored(answer) == answer # <<>> /\ ~Contains(<<Phrase>>, answer)

\* rag_content[key] = answer
Put(content, key, answer) ==
    [k \in DOMAIN content \cup {key} |-> IF k = key THEN answer ELSE content[k]]

\* generate_doc_ui.py lines 181-185: the question to go on with after a failure.
AfterFailureBreak(i) == Len(Keys) + 1
AfterFailure(i) == i + 1

\* get_rag_content(folder_name): entry.
get_rag_content(folder_name) ==
    /\ rag_pc = "idle"
    /\ rag_pc' = "loop"
    /\ rag_folder' = folder_name
    /\ rag_i' = 1
    /\ rag_content' = <<>>
    /\ rag_log' = <<>>
    /\ q_attempt' = 0
    /\ q_delay' = retry_delay
    /\ q_sleeps' = <<>>
    /\ q_loadtries' = 0
    /\ q_last' = NoCall
    /\ UNCHANGED <<rag_raised, cache, loads>>
    /\ UNCHANGED notRag

\* An attempt of answer_question for the current question returns answer:
\* load_vector_store went with outcome lo and gave the index, the chain answered.
\* get_rag_content stores the answer or not and goes on to the next question.
answer_question_returns(lo, answer) ==
    /\ rag_pc = "loop"
    /\ rag_i <= Len(Keys)
    /\ q_attempt < max_retries
    /\ lo \in LoadOutcomes("generate_doc_ui", rag_folder)
    /\ lo # 0
    /\ cache' = CacheAfter(cache, "generate_doc_ui", rag_folder, lo)
    /\ loads' = LoadsAfter(loads, rag_folder, lo)
    /\ rag_content' = IF Stored(answer) THEN Put(rag_content, Keys[rag_i], answer)
                                         ELSE rag_content
    /\ rag_log' = Append(rag_log, [key |-> Keys[rag_i], raised |-> FALSE, answer |-> answer])
    /\ rag_i' = rag_i + 1
    /\ q_last' = [raised |-> FALSE,
                  loadtries |-> q_loadtries + LoadTries("generate_doc_ui", lo),
                  sleeps |-> q_sleeps \o LoadSleeps("generate_doc_ui", lo)]
    /\ q_attempt' = 0
    /\ q_delay' = retry_delay
    /\ q_sleeps' = <<>>
    /\ q_loadtries' = 0
    /\ UNCHANGED <<rag_pc, rag_raised, rag_folder>>
    /\ UNCHANGED notRag

\* An attempt of answer_question for the current question fails, in
\* load_vector_store (lo = 0: it raised after its own retries) or in the chain
\* (the index was there): it is retried after a sleep, or (the last attempt)
\* re-raised to get_rag_content, which logs the error and continues.
answer_question_fails(lo, why) ==
    /\ rag_pc = "loop"
    /\ rag_i <= Len(Keys)
    /\ q_attempt < max_retries
    /\ lo \in LoadOutcomes("generate_doc_ui", rag_folder)
    /\ (lo = 0) <=> (why = "load_fail")
    /\ cache' = CacheAfter(cache, "generate_doc_ui", rag_folder, lo)
    /\ loads' = LoadsAfter(loads, rag_folder, lo)
    /\ IF q_attempt < max_retries - 1
       THEN /\ q_sleeps' = (q_sleeps \o LoadSleeps("generate_doc_ui", lo)) \o <<q_delay>>
            /\ q_loadtries' = q_loadtries + LoadTries("generate_doc_ui", lo)
            /\ q_delay' = q_delay * 2
            /\ q_attempt' = q_attempt + 1
            /\ UNCHANGED <<rag_i, rag_log, q_last>>
       ELSE /\ rag_log' = Append(rag_log, [key |-> Keys[rag_i], raised |-> TRUE, answer |-> <<>>])
            /\ rag_i' = AfterFailure(rag_i)
            /\ q_last' = [raised |-> TRUE,
                          loadtries |-> q_loadtries + LoadTries("generate_doc_ui", lo),
                          sleeps |-> q_sleeps \o LoadSleeps("generate_doc_ui", lo)]
            /\ q_attempt' = 0
            /\ q_delay' = retry_delay
            /\ q_sleeps' = <<>>
            /\ q_loadtries' = 0
    /\ UNCHANGED <<rag_pc, rag_content, rag_raised, rag_folder>>
    /\ UNCHANGED notRag

\* The for loop is over: get_rag_content returns rag_content.
get_rag_content_return ==
    /\ rag_pc = "loop"
    /\ rag_i > Len(Keys)
    /\ rag_pc' = "returned"
    /\ UNCHANGED <<rag_i, rag_content, rag_raised, rag_log, q_attempt, q_delay, q_sleeps,
                   q_loadtries, q_last, rag_folder, cache, loads>>
    /\ UNCHANGED notRag

RagNext ==
    \/ \E f \in AskedFolders : get_rag_content(f)
    \/ \E lo \in -1..max_retries, a \in Answers : answer_question_returns(lo, a)
    \/ \E lo \in -1..max_retries, w \in QuestionFailures : answer_question_fails(lo, w)
    \/ get_rag_content_return

----------------------------------------------------------------------------
(* The model client and the agent run path *)

Delays == {1, 40, DefaultDelay}

GNext ==
    \/ \E n \in 0..MaxRetries, d \in Delays : call_gemini(n, d)
    \/ \E chunks \in ChunkLists : run_agent_single(chunks)
    \/ \E resp \in Responses : call_gemini_response(resp)
    \/ \E e \in Exceptions : call_gemini_exception(e)
    \/ call_gemini_exhausted
    \/ run_agent_single_show


----------------------------------------------------------------------------
(* The retriever: load_vector_store and answer_question of both modules *)

\* What follows a loaded index in the try body: the search and the chain return
\* an answer, or one of them raises (a provider failure).
QaAnswers == { Sentinel, <<"Three phases.">> }
TryOutcomes == {"answer", "load_fail", "chain_fail"}

QaInit ==
    /\ cache = [m \in Modules |-> {}]
    /\ loads = [f \in FolderIds |-> 0]
    /\ qa_pc = "idle"
    /\ qa_module = "generate_doc_ui"
    /\ qa_folder = BuiltFolder
    /\ qa_attempt = 0
    /\ qa_delay = retry_delay
    /\ qa_sleeps = <<>>
    /\ qa_loadtries = 0
    /\ qa_outcomes = <<>>
    /\ qa_result = <<>>
    /\ qa_exc = "none"
    /\ nq = 0

\* Entry of answer_question(user_question, folder_name) of module m.
answer_question(m, f) ==
    /\ qa_pc \in {"idle", "returned", "raised"}
    /\ nq < MaxQuestions
    /\ nq' = nq + 1
    /\ qa_pc' = "loop"
    /\ qa_module' = m
    /\ qa_folder' = f
    /\ qa_attempt' = 0
    /\ qa_delay' = retry_delay
    /\ qa_sleeps' = <<>>
    /\ qa_loadtries' = 0
    /\ qa_outcomes' = <<>>
    /\ qa_result' = <<>>
    /\ qa_exc' = "none"
    /\ UNCHANGED <<cache, loads>>
    /\ UNCHANGED notQa

\* One iteration of the retry loop of generate_doc_ui.answer_question: the load
\* goes as lo and, if it returned an index, the search and chain return answer
\* or raise (how).
answer_question_attempt(lo, how, answer) ==
    /\ qa_pc = "loop"
    /\ qa_module = "generate_doc_ui"
    /\ qa_attempt < max_retries
    /\ lo \in LoadOutcomes(qa_module, qa_folder)
    /\ (lo = 0) = (how = "load_fail")
    /\ cache' = CacheAfter(cache, qa_module, qa_folder, lo)
    /\ loads' = LoadsAfter(loads, qa_folder, lo)
    /\ qa_loadtries' = qa_loadtries + LoadTries(qa_module, lo)
    /\ qa_outcomes' = Append(qa_outcomes, [load |-> lo, how |-> how])
    /\ IF how = "answer"
       THEN /\ qa_pc' = "returned"
            /\ qa_result' = answer
            /\ qa_sleeps' = qa_sleeps \o LoadSleeps(qa_module, lo)
            /\ UNCHANGED <<qa_attempt, qa_delay, qa_exc>>
       ELSE IF qa_attempt < max_retries - 1
            THEN /\ qa_sleeps' = qa_sleeps \o LoadSleeps(qa_module, lo) \o <<qa_delay>>
                 /\ qa_delay' = qa_delay * 2
                 /\ qa_attempt' = qa_attempt + 1
                 /\ UNCHANGED <<qa_pc, qa_result, qa_exc>>
            ELSE /\ qa_pc' = "raised"
                 /\ qa_exc' = how
                 /\ qa_sleeps' = qa_sleeps \o LoadSleeps(qa_module, lo)
                 /\ UNCHANGED <<qa_attempt, qa_delay, qa_result>>
    /\ UNCHANGED <<qa_module, qa_folder, nq>>
    /\ UNCHANGED notQa

\* The body of chatbot.answer_question: no try/except, so a failure of the load,
\* the search or the chain is raised to the caller at once.
chatbot_answer_question_body(lo, how, answer) ==
    /\ qa_pc = "loop"
    /\ qa_module = "chatbot"
    /\ lo \in LoadOutcomes(qa_module, qa_folder)
    /\ (lo = 0) = (how = "load_fail")
    /\ cache' = CacheAfter(cache, qa_module, qa_folder, lo)
    /\ loads' = LoadsAfter(loads, qa_folder, lo)
    /\ qa_loadtries' = qa_loadtries + LoadTries(qa_module, lo)
    /\ qa_outcomes' = Append(qa_outcomes, [load |-> lo, how |-> how])
    /\ IF how = "answer"
       THEN /\ qa_pc' = "returned"
            /\ qa_result' = answer
            /\ qa_exc' = qa_exc
       ELSE /\ qa_pc' = "raised"
            /\ qa_exc' = how
            /\ qa_result' = qa_result
    /\ UNCHANGED <<qa_module, qa_folder, qa_attempt, qa_delay, qa_sleeps, nq>>
    /\ UNCHANGED notQa

QaNext ==
    \/ \E m \in Modules, f \in AskedFolders : answer_question(m, f)
    \/ \E lo \in -1..max_retries, how \in TryOutcomes, answer \in QaAnswers :
           answer_question_attempt(lo, how, answer)
    \/ \E lo \in -1..1, how \in TryOutcomes, answer \in QaAnswers :
           chatbot_answer_question_body(lo, how, answer)

----------------------------------------------------------------------------
(* Text extraction: parse_file, parse_docx, parse_pdf, get_pdf_text *)

\* File names, as sequences of characters.
FileNames ==
    { <<"r", ".", "p", "d", "f">>,
      <<"r", ".", "P", "D", "F">>,
      <<"r", ".", "P", "d", "f">>,
      <<"r", ".", "d", "o", "c", "x">>,
      <<"r", ".", "D", "O", "C", "X">>,
      <<"r", ".", "p", "d", "f", ".", "d", "o", "c", "x">>,
      <<"r", ".", "d", "o", "c">>,
      <<"r", ".", "t", "x", "t">>,
      <<"r", ".", "p", "d", "f", "x">>,
      <<"p", "d", "f">>,
      <<".", "p", "d", "f">> }

\* str.lower() on one character.
LowerChar(c) ==
    CASE c = "P" -> "p" [] c = "D" -> "d" [] c = "F" -> "f"
      [] c = "O" -> "o" [] c = "C" -> "c" [] c = "X" -> "x"
      [] OTHER -> c

\* str.lower()
LowerIdentity(t) == t
Lower(t) == [i \in DOMAIN t |-> LowerChar(t[i])]

\* Path(file_path).suffix: the part of the name from its last dot on, or "" when
\* the name has no dot, starts with its only dot, or ends with the dot.
LastDot(name) ==
    IF \E i \in DOMAIN name : name[i] = "."
    THEN CHOOSE i \in DOMAIN name :
             name[i] = "." /\ \A j \in DOMAIN name : name[j] = "." => j <= i
    ELSE 0

Suffix(name) ==
    LET i == LastDot(name)
    IN  IF 1 < i /\ i < Len(name) THEN SubSeq(name, i, Len(name)) ELSE <<>>

\* One page of a PDF or one paragraph of a DOCX: its text, and whether PyPDF2's
\* extract_text returns None for it.
Units ==
    { [text |-> <<>>, none |-> TRUE],
      [text |-> <<>>, none |-> FALSE],
      [text |-> <<"a">>, none |-> FALSE],
      [text |-> <<" ", "b", "\n">>, none |-> FALSE] }

UnitLists == UNION { [1..n -> Units] : n \in 0..MaxPages }

\* page.extract_text() or ""
ExtractTextOrEmpty(u) == IF u.none THEN <<>> ELSE u.text

RECURSIVE KeepNonEmpty(_)
\* [t for t in texts if t]
KeepNonEmpty(texts) ==
    IF texts = <<>> THEN <<>>
    ELSE IF Head(texts) # <<>> THEN <<Head(texts)>> \o KeepNonEmpty(Tail(texts))
    ELSE KeepNonEmpty(Tail(texts))

\* parse_docx: "\n".join([para.text.strip() for para in doc.paragraphs
\*                       if para.text.strip()])
parse_docx(paras) ==
    JoinWith(<<"\n">>, KeepNonEmpty([i \in DOMAIN paras |-> Strip(paras[i].text)]))

\* parse_pdf: "\n".join([page.get_text() for page in doc])
parse_pdf(pages) == JoinWith(<<"\n">>, [i \in DOMAIN pages |-> pages[i].text])

\* get_pdf_text: text += page.extract_text() or "", over the pages of each PDF.
PdfText(pages) == Join([i \in DOMAIN pages |-> ExtractTextOrEmpty(pages[i])])
GetPdfText(pdf_docs) == Join([k \in DOMAIN pdf_docs |-> PdfText(pdf_docs[k])])

\* The exceptions: parse_file's own, and the ones docx.Document and fitz.open
\* raise on a file they cannot open.
UnsupportedFormat == "ValueError: Unsupported file format"
ParserError(parser) ==
    IF parser = "parse_docx" THEN "docx: PackageNotFoundError" ELSE "fitz: FileDataError"

\* parse_file lines 36-42: the parser chosen for the file name ("none": raise).
ParserFor(name) ==
    LET ext == Lower(Suffix(name))
    IN  IF ext = <<".", "d", "o", "c", "x">> THEN "parse_docx"
        ELSE IF ext = <<".", "p", "d", "f">> THEN "parse_pdf"
        ELSE "none"

XInit ==
    /\ x_pc = "idle"
    /\ x_op = "none"
    /\ x_name = <<>>
    /\ x_docs = <<>>
    /\ x_broken = FALSE
    /\ x_calls = <<>>
    /\ x_result = <<>>
    /\ x_exc = "none"

\* The lists of PDFs given to get_pdf_text: one PDF, or two short ones.
PdfDocLists ==
    { <<pages>> : pages \in UnitLists }
    \cup { <<p1, p2>> : p1 \in { u \in UnitLists : Len(u) <= 1 },
                        p2 \in { u \in UnitLists : Len(u) <= 1 } }

\* The inputs of the extractors: a file name, the documents read, and whether
\* the file is one its parser cannot open.
XInitInputs ==
    /\ x_pc = "idle"
    /\ x_op = "none"
    /\ x_name \in FileNames
    /\ x_docs \in PdfDocLists
    /\ x_broken \in BOOLEAN
    /\ x_calls = <<>>
    /\ x_result = <<>>
    /\ x_exc = "none"

\* parse_file(file_path) on the file named x_name that holds x_docs[1].
parse_file ==
    LET parser == ParserFor(x_name)
        units == x_docs[1]
    IN  /\ x_pc = "idle"
        /\ Len(x_docs) = 1
        /\ x_pc' = "done"
        /\ x_op' = "parse_file"
        /\ IF parser = "none"
           THEN /\ x_calls' = <<>>
                /\ x_result' = <<>>
                /\ x_exc' = UnsupportedFormat
           ELSE /\ x_calls' = <<parser>>
                /\ IF x_broken
                   THEN /\ x_result' = <<>>
                        /\ x_exc' = ParserError(parser)
                   ELSE /\ x_result' = IF parser = "parse_docx" THEN parse_docx(units)
                                                                ELSE parse_pdf(units)
                        /\ x_exc' = "none"
        /\ UNCHANGED <<x_name, x_docs, x_broken>>
        /\ UNCHANGED notExtract

\* get_pdf_text(pdf_docs) of chatbot.py and of generate_doc_ui.py (the same
\* code), on the PDFs x_docs.
get_pdf_text ==
    /\ x_pc = "idle"
    /\ x_pc' = "done"
    /\ x_op' = "get_pdf_text"
    /\ x_calls' = <<>>
    /\ x_result' = GetPdfText(x_docs)
    /\ x_exc' = "none"
    /\ UNCHANGED <<x_name, x_docs, x_broken>>
    /\ UNCHANGED notExtract

XNext ==
    \/ parse_file
    \/ get_pdf_text

----------------------------------------------------------------------------
(* The chunker: chunk_text, i.e. RecursiveCharacterTextSplitter.split_text *)

Chars == {"a", "b", ".", " ", "\n"}
ChunkTexts == UNION { [1..n -> Chars] : n \in 0..MaxTextLen }

\* (chunk_size, chunk_overlap) with chunk_overlap < chunk_size.
ChunkParams == { <<size, overlap>> : size \in 2..MaxChunkSize, overlap \in 0..2 } \ { <<2, 2>> }

\* separators=["\n\n", "\n", ".", " "]
Separators == << <<"\n", "\n">>, <<"\n">>, <<".">>, <<" ">> >>

StartsWith(t, p) == Len(p) <= Len(t) /\ SubSeq(t, 1, Len(p)) = p

RECURSIVE SplitDropSeparator(_, _, _)
SplitDropSeparator(t, sep, cur) ==
    IF t = <<>> THEN <<cur>>
    ELSE IF StartsWith(t, sep)
         THEN <<cur>> \o SplitDropSeparator(SubSeq(t, Len(sep) + 1, Len(t)), sep, <<>>)
         ELSE SplitDropSeparator(Tail(t), sep, Append(cur, Head(t)))

RECURSIVE SplitKeepSeparator(_, _, _)
\* re.split on the separator, each separator kept at the start of the piece that
\* follows it; cur is the piece being read.
SplitKeepSeparator(t, sep, cur) ==
    IF t = <<>> THEN <<cur>>
    ELSE IF StartsWith(t, sep)
         THEN <<cur>> \o SplitKeepSeparator(SubSeq(t, Len(sep) + 1, Len(t)), sep, sep)
         ELSE SplitKeepSeparator(Tail(t), sep, Append(cur, Head(t)))

\* _split_text_with_regex(text, separator, keep_separator=True): the pieces that
\* are not empty.
SplitTextDroppingSeparator(t, sep) == KeepNonEmpty(SplitDropSeparator(t, sep, <<>>))
SplitTextWithRegex(t, sep) == KeepNonEmpty(SplitKeepSeparator(t, sep, <<>>))

\* _join_docs with separator "" and strip_whitespace=True: no chunk if nothing
\* but whitespace is left.
JoinDocs(docs) ==
    LET t == Strip(Join(docs)) IN IF t = <<>> THEN <<>> ELSE <<t>>

\* total: the length of the pieces held in current_doc.
Total(docs) == Len(Join(docs))

RECURSIVE PopOverlap(_, _, _, _)
\* The while loop of _merge_splits: pieces leave the front of current_doc until
\* what is left is no longer than chunk_overlap and leaves room for d.
PopOverlap(cur, d, size, overlap) ==
    IF Total(cur) > overlap \/ (Total(cur) + Len(d) > size /\ Total(cur) > 0)
    THEN PopOverlap(Tail(cur), d, size, overlap)
    ELSE cur

RECURSIVE MergeSplits(_, _, _, _)
\* _merge_splits(splits, ""): cur is current_doc.
MergeSplits(splits, cur, size, overlap) ==
    IF splits = <<>> THEN JoinDocs(cur)
    ELSE LET d == Head(splits)
         IN  IF Total(cur) + Len(d) > size
             THEN IF cur # <<>>
                  THEN JoinDocs(cur)
                       \o MergeSplits(Tail(splits),
                                      Append(PopOverlap(cur, d, size, overlap), d),
                                      size, overlap)
                  ELSE MergeSplits(Tail(splits), <<d>>, size, overlap)
             ELSE MergeSplits(Tail(splits), Append(cur, d), size, overlap)

\* The first separator that occurs in the text (0: none does).
FirstSeparator(t, seps) ==
    IF \E i \in DOMAIN seps : Contains(seps[i], t)
    THEN CHOOSE i \in DOMAIN seps :
             Contains(seps[i], t) /\ \A j \in 1..(i - 1) : ~Contains(seps[j], t)
    ELSE 0

RECURSIVE SplitText(_, _, _, _)
RECURSIVE GoodSplits(_, _, _, _, _)

\* The for loop of _split_text over the pieces: a piece shorter than chunk_size
\* is put aside (good), a longer one is split on the finer separators or, if none
\* is left, taken as it is.
GoodSplits(splits, good, new_separators, size, overlap) ==
    LET merged == IF good # <<>> THEN MergeSplits(good, <<>>, size, overlap) ELSE <<>>
    IN  IF splits = <<>> THEN merged
        ELSE LET piece == Head(splits)
             IN  IF Len(piece) < size
                 THEN GoodSplits(Tail(splits), Append(good, piece), new_separators,
                                 size, overlap)
                 ELSE merged
                      \o (IF new_separators = <<>> THEN <<piece>>
                          ELSE SplitText(piece, new_separators, size, overlap))
                      \o GoodSplits(Tail(splits), <<>>, new_separators, size, overlap)

\* RecursiveCharacterTextSplitter._split_text(text, separators)
SplitText(t, seps, size, overlap) ==
    LET i == FirstSeparator(t, seps)
        separator == IF i = 0 THEN seps[Len(seps)] ELSE seps[i]
        new_separators == IF i = 0 THEN <<>> ELSE SubSeq(seps, i + 1, Len(seps))
    IN  GoodSplits(SplitTextWithRegex(t, separator), <<>>, new_separators, size, overlap)

CInit ==
    /\ c_pc = "idle"
    /\ c_text = <<>>
    /\ c_size = 2
    /\ c_overlap = 0
    /\ c_chunks = <<>>

\* The inputs of chunk_text: any text and any parameters within the bounds.
CInitInputs ==
    /\ c_pc = "idle"
    /\ c_text \in ChunkTexts
    /\ \E q \in ChunkParams : c_size = q[1] /\ c_overlap = q[2]
    /\ c_chunks = <<>>

\* chunk_text(text, chunk_size, chunk_overlap), on the inputs held in c_text,
\* c_size and c_overlap.
chunk_text ==
    /\ c_pc = "idle"
    /\ c_pc' = "done"
    /\ c_chunks' = SplitText(c_text, Separators, c_size, c_overlap)
    /\ UNCHANGED <<c_text, c_size, c_overlap>>
    /\ UNCHANGED notChunk

CNext == chunk_text

----------------------------------------------------------------------------
(* The feedback log: log_feedback, and the analyzer's feedback widgets *)

\* The two ratings app.py passes: the thumbs-up and thumbs-down characters,
\* named by their code points.
ThumbsUp == "U+1F44D"
ThumbsDown == "U+1F44E"

\* Results of an agent run and comments typed by the user, as text fragments.
Results == { <<>>, <<"ok">>, <<"one", "\n", "two">> }
Comments == { <<>>, <<"wrong", "\n", "verdict">> }

\* The keys of entry, in the order the dict literal lists them.
EntryKeys == <<"timestamp", "rfp_file", "agent", "output", "rating", "comment">>

\* The log file is a sequence of tokens: punctuation, keys, string fragments and
\* the line terminator.
Tok(kind, text) == [k |-> kind, v |-> text]
Newline == Tok("nl", "\n")

\* json.dumps on one fragment of a string (ensure_ascii=True): a newline becomes
\* backslash-n, a character outside ASCII its \u escapes.
EscapeFragmentNone(x) == x
EscapeFragment(x) ==
    CASE x = "\n" -> "\\n"
      [] x = ThumbsUp -> "\\ud83d\\udc4d"
      [] x = ThumbsDown -> "\\ud83d\\udc4e"
      [] OTHER -> x

\* json.dumps on a string.
DumpsString(t) == [i \in DOMAIN t |-> Tok("str", EscapeFragment(t[i]))]

RECURSIVE DumpsItems(_, _)
DumpsItems(entry, keys) ==
    IF keys = <<>> THEN <<>>
    ELSE <<Tok("key", Head(keys))>> \o DumpsString(entry[Head(keys)])
         \o DumpsItems(entry, Tail(keys))

\* json.dumps(entry)
Dumps(entry) == <<Tok("punct", "{")>> \o DumpsItems(entry, EntryKeys) \o <<Tok("punct", "}")>>

\* log_feedback lines 9-16: the entry built from the arguments at time now.
Entry(now, rfp_name, agent_name, output_text, rating, comment) ==
    [ timestamp |-> <<ToString(now)>>,
      rfp_file |-> <<rfp_name>>,
      agent |-> <<agent_name>>,
      output |-> output_text,
      rating |-> <<rating>>,
      comment |-> comment ]

\* log_feedback lines 17-18: the file after open(FEEDBACK_LOG, "a") and
\* f.write(json.dumps(entry) + "\n").
LogFeedback(file, now, rfp_name, agent_name, output_text, rating, comment) ==
    file \o Dumps(Entry(now, rfp_name, agent_name, output_text, rating, comment))
         \o <<Newline>>

\* st.button(key=...): True in the script run that the click on it triggered.
ClickedAlways(key, click) == TRUE
Clicked(key, click) == click = key

FInit ==
    /\ f_log = <<>>
    /\ f_shown = {}
    /\ f_clicks = <<>>
    /\ f_result = <<>>
    /\ f_calls = 0

\* One run of the script on the Analyzer tab with a file uploaded and an agent
\* chosen, triggered by click ("other": a widget outside the feedback section);
\* the agent returns result, user_comment is what the text area holds.
analyzer_run(click, result, user_comment) ==
    LET up == Clicked("up", click)
        down == Clicked("down", click)
        submit == down /\ Clicked("submit", click)
        now == Len(f_clicks) + 1
        afterUp == IF up
                   THEN LogFeedback(f_log, now, "rfp.pdf", "Summary", result, ThumbsUp, <<>>)
                   ELSE f_log
        afterDown == IF submit
                     THEN LogFeedback(afterUp, now, "rfp.pdf", "Summary", result,
                                      ThumbsDown, user_comment)
                     ELSE afterUp
    IN  /\ Len(f_clicks) < MaxRuns
        /\ click \in f_shown \cup {"other"}
        /\ f_clicks' = Append(f_clicks, click)
        /\ f_result' = result
        /\ f_log' = afterDown
        /\ f_calls' = f_calls + (IF up THEN 1 ELSE 0) + (IF submit THEN 1 ELSE 0)
        /\ f_shown' = {"up", "down"} \cup (IF down THEN {"submit"} ELSE {})
        /\ UNCHANGED notFeedback

FNext ==
    \E click \in {"other", "up", "down", "submit"}, result \in Results,
       user_comment \in Comments : analyzer_run(click, result, user_comment)

----------------------------------------------------------------------------
(* The proposal generator: generate_proposal_document *)

KeySet == {Keys[i] : i \in DOMAIN Keys}

\* The texts a content map holds under a key: the empty string, or an answer.
SectionText(key) == <<"answer for ", key>>

\* The content maps: every key is missing, bound to "", or bound to a text.
ContentMaps ==
    UNION { [ks -> {"empty", "text"}] : ks \in SUBSET KeySet }

ContentOf(shape) ==
    [k \in DOMAIN shape |-> IF shape[k] = "text" THEN SectionText(k) ELSE <<>>]

\* rag_content and rag_content.get(key): the map holds a non-empty text for key.
HasText(content, key) ==
    /\ DOMAIN content # {}
    /\ key \in DOMAIN content
    /\ content[key] # <<>>

\* The body text of a section that reads key from the map, or boilerplate.
FromMapOrBoilerplate(content, key, boilerplate) ==
    IF HasText(content, key) THEN content[key] ELSE boilerplate

Para(section, text) == [section |-> section, text |-> text]

\* generate_proposal_document lines 556-575: the six pages, by their body text.
\* Only add_executive_summary and add_scope_and_approach read the map.
ProposalBody(content) ==
    << Para("cover", <<"company name and address">>),
       Para("executive_summary",
            FromMapOrBoilerplate(content, "executive_summary",
                                 <<"is pleased to submit this proposal">>)),
       Para("company_overview", <<"company qualifications list">>),
       Para("approach",
            FromMapOrBoilerplate(content, "approach",
                                 <<"Our comprehensive approach to service delivery">>)),
       Para("implementation", <<"Our implementation follows a proven step-by-step process:">>),
       Para("personnel", <<"key personnel">>),
       Para("pricing", <<"pricing and final notes">>) >>

PInit ==
    /\ p_pc = "idle"
    /\ p_content = <<>>
    /\ p_doc = <<>>

\* The content map of the call: any map get_rag_content can return.
PInitInputs ==
    /\ p_pc = "idle"
    /\ \E shape \in ContentMaps : p_content = ContentOf(shape)
    /\ p_doc = <<>>

\* generate_proposal_document(folder_name, lambda x: rag_content, output_path);
\* saved: whether doc.save(output_path) succeeds.
generate_proposal_document(saved) ==
    /\ p_pc = "idle"
    /\ IF saved
       THEN /\ p_pc' = "returned"
            /\ p_doc' = ProposalBody(p_content)
       ELSE /\ p_pc' = "raised"
            /\ p_doc' = p_doc
    /\ UNCHANGED p_content
    /\ UNCHANGED notProposal

PNext == \E saved \in BOOLEAN : generate_proposal_document(saved)

----------------------------------------------------------------------------
(* Specifications: one per component *)

Init == GInit /\ BInit /\ RagInit /\ QaInit /\ XInit /\ CInit /\ FInit /\ PInit

\* The same, on a disk that earlier builds have written.
BInitOnDisk ==
    /\ fs \in DiskStates
    /\ b_pc = "idle"
    /\ b_variant = "generate_doc_ui"
    /\ b_folder = FolderId("rfp", 1)
    /\ b_attempt = 0
    /\ b_delay = 0
    /\ b_sleeps = <<>>
    /\ b_outcomes = <<>>
    /\ b_exc = "none"
    /\ nbuilds = 0
    /\ returned = <<>>
    /\ completed = {}
    /\ listing = [raised |-> FALSE, docs |-> {}]

InitOnDisk == GInit /\ BInitOnDisk /\ RagInit /\ QaInit /\ XInit /\ CInit /\ FInit /\ PInit

SpecQa == InitOnDisk /\ [][QaNext]_vars

InitExtract == GInit /\ BInit /\ RagInit /\ QaInit /\ XInitInputs /\ CInit /\ FInit /\ PInit

SpecExtract == InitExtract /\ [][XNext]_vars

InitChunk == GInit /\ BInit /\ RagInit /\ QaInit /\ XInit /\ CInitInputs /\ FInit /\ PInit

SpecChunk == InitChunk /\ [][CNext]_vars

SpecFeedback == Init /\ [][FNext]_vars

InitProposal ==
    GInit /\ BInit /\ RagInit /\ QaInit /\ XInit /\ CInit /\ FInit /\ PInitInputs

SpecProposal == InitProposal /\ [][PNext]_vars

SpecGemini == Init /\ [][GNext]_vars

SpecBuild == Init /\ [][BNext]_vars

SpecRag == InitOnDisk /\ [][RagNext]_vars

----------------------------------------------------------------------------
(* Claims about the model client (checked under SpecGemini) *)

IsTransient(ev) == ev.kind = "exc" /\ ev.msg \in TransientExceptions
IsPolicyRejection(ev) ==
    \/ ev.kind = "resp" /\ ev.resp \in RejectedResponses
    \/ ev.kind = "exc" /\ ev.msg \in BlockExceptions
IsAnswer(ev) == ev.kind = "resp" /\ ev.resp \in AnsweredResponses

AllTransient == \A i \in DOMAIN outcomes : IsTransient(outcomes[i])

RECURSIVE Pow2(_)
Pow2(k) == IF k = 0 THEN 1 ELSE 2 * Pow2(k - 1)

\* C1 (retry termination): a call with retries = N >= 1 whose every attempt
\* raised a transient error has called the provider at most N times (never more,
\* also while it is still running), and once it has returned it returned the
\* empty string and no exception escaped.
C1_RetryTermination ==
    /\ calls <= retries
    /\ attempt <= retries
    /\ (g_pc = "returned" /\ retries >= 1 /\ AllTransient)
          => /\ g_end = "exhausted"
             /\ g_result = <<>>
             /\ ~g_raised

C1_Witness ==
    /\ g_pc = "returned"
    /\ retries = 3
    /\ calls = 3
    /\ AllTransient
    /\ g_result = <<>>

\* C2 (no retry on policy block): an attempt that observes a policy rejection
\* (no candidates, RECITATION, or an exception carrying the block signal) is the
\* last attempt of its call: the call has returned the empty string, made no
\* provider call after it, and slept only for the retryable failures before it.
C2_NoRetryOnPolicyBlock ==
    \A i \in DOMAIN outcomes :
        IsPolicyRejection(outcomes[i])
            => /\ i = Len(outcomes)
               /\ calls = i
               /\ g_pc = "returned"
               /\ g_end = "fatal"
               /\ g_result = <<>>
               /\ ~g_raised
               /\ Len(sleeps) = i - 1
               /\ attempt = i - 1

\* A block exception on the second attempt of a call with budget left.
C2_Witness ==
    /\ Len(outcomes) = 2
    /\ IsTransient(outcomes[1])
    /\ outcomes[2].kind = "exc"
    /\ IsPolicyRejection(outcomes[2])
    /\ retries = 5
    /\ g_pc = "returned"

\* C3 (retryable classification and backoff): every exception that is not a
\* block signal is followed by a sleep of the current delay and a doubling of
\* the delay, so the k-th sleep lasts delay0 * 2^(k-1); the call goes on to the
\* next attempt while attempts remain (it returns after a retryable failure only
\* when the budget is exhausted); a call through an agent uses 5 attempts and an
\* initial delay of about 40 seconds (41).
C3_RetryableBackoff ==
    /\ Len(sleeps) = Cardinality({i \in DOMAIN outcomes : IsTransient(outcomes[i])})
    /\ Len(sleeps) = attempt
    /\ \A k \in DOMAIN sleeps : sleeps[k] = delay0 * Pow2(k - 1)
    /\ g_pc # "idle" => delay = delay0 * Pow2(attempt)
    /\ (g_pc = "returned" /\ outcomes # <<>> /\ IsTransient(outcomes[Len(outcomes)]))
          => (g_end = "exhausted" /\ attempt = retries)
    /\ (g_pc = "loop" /\ outcomes # <<>>) => IsTransient(outcomes[Len(outcomes)])
    /\ r_pc # "none" => (retries = 5 /\ delay0 \in 40..41)

C3_Witness ==
    /\ r_pc = "invoking"
    /\ sleeps = <<41, 82, 164>>
    /\ g_pc = "loop"

\* C4 (per-call state machine): a step of a running call is one of
\*   Attempting(n) -> Success: a non-blocked response ends the call with the
\*     text call_gemini extracts from it (response.text stripped, or the parts
\*     joined, or str(response));
\*   Attempting(n) -> Retryable(n+1): a retryable failure, the only step that
\*     changes the attempt counter, and by exactly one;
\*   Attempting(n) -> Fatal: a policy rejection, or the budget is exhausted;
\* and after the call has returned no provider call is made and the result stays.
C4_Step ==
    /\ (calls' # calls \/ outcomes' # outcomes)
          => /\ g_pc = "loop"
             /\ calls' = calls + 1
             /\ outcomes' = Append(outcomes, outcomes'[Len(outcomes')])
    /\ (g_pc = "loop" /\ calls' = calls + 1)
          => LET ev == outcomes'[Len(outcomes')] IN
             /\ IsAnswer(ev)
                  => /\ g_pc' = "returned"
                     /\ g_end' = "success"
                     /\ attempt' = attempt
                     /\ g_result' = IF ev.resp.shape = "text"
                                        THEN Strip(ev.resp.text)
                                    ELSE IF ev.resp.shape = "parts"
                                        THEN Join(ev.resp.parts)
                                    ELSE ev.resp.text
             /\ IsTransient(ev)
                  => /\ g_pc' = "loop"
                     /\ g_end' = "none"
                     /\ attempt' = attempt + 1
             /\ IsPolicyRejection(ev)
                  => /\ g_pc' = "returned"
                     /\ g_end' = "fatal"
                     /\ attempt' = attempt
    /\ (g_pc = "loop" /\ attempt' # attempt)
          => (attempt' = attempt + 1 /\ IsTransient(outcomes'[Len(outcomes')]))
    /\ (g_pc = "loop" /\ g_pc' = "returned" /\ g_end' = "success")
          => IsAnswer(outcomes'[Len(outcomes')])
    /\ g_pc = "returned"
          => /\ g_pc' = "returned"
             /\ calls' = calls
             /\ g_result' = g_result
             /\ g_end' = g_end

C4_StateMachine == [][C4_Step]_vars

\* A response with surrounding whitespace ended the call on its third attempt.
C4_Witness ==
    /\ g_pc = "returned"
    /\ g_end = "success"
    /\ calls = 3
    /\ outcomes[3].resp.text = <<" ", "a", "\n">>
    /\ g_result = <<"a">>

\* C5 (empty output means no answer): a run whose model call ended in a policy
\* block or in retry exhaustion is not reported as a successful result.
C5_EmptyOutputIsNoAnswer ==
    (r_pc = "shown" /\ g_end \in {"fatal", "exhausted"}) => "success" \notin ui

----------------------------------------------------------------------------
(* Claims about the index builder (checked under SpecBuild) *)

Failed(o) == o # "ok"
InGenerateDocUi == b_pc # "idle" /\ b_variant = "generate_doc_ui"

\* C8 (index build bounded retry): generate_doc_ui.save_vector_store makes at most
\* 3 attempts; it sleeps 2 s after the 1st failed attempt and 4 s after the 2nd and
\* never otherwise; it returns the folder id on the first attempt that persists
\* the index and metadata.json; a failed 3rd attempt is re-raised to the caller
\* with no further sleep.
C8_BuildBoundedRetry ==
    InGenerateDocUi =>
        /\ Len(b_outcomes) <= 3
        /\ b_pc # "fellthrough"
        /\ \A i \in DOMAIN b_outcomes : i < Len(b_outcomes) => Failed(b_outcomes[i])
        /\ LET nfailed == Cardinality({i \in DOMAIN b_outcomes : Failed(b_outcomes[i])})
           IN  b_sleeps = SubSeq(<<2, 4>>, 1, IF nfailed < 2 THEN nfailed ELSE 2)
        /\ b_pc = "loop" => Len(b_outcomes) < 3
        /\ b_pc = "returned"
              => /\ b_outcomes[Len(b_outcomes)] = "ok"
                 /\ returned[Len(returned)] = b_folder
                 /\ fs[b_folder].index = [state |-> "ok", by |-> nbuilds]
                 /\ fs[b_folder].meta = [state |-> "ok", by |-> nbuilds]
                 /\ b_exc = "none"
        /\ b_pc = "raised"
              => /\ Len(b_outcomes) = 3
                 /\ Failed(b_outcomes[3])
                 /\ b_exc = b_outcomes[3]
                 /\ b_sleeps = <<2, 4>>

\* Two failed attempts, then a third that persists both artifacts.
C8_Witness ==
    /\ InGenerateDocUi
    /\ b_pc = "returned"
    /\ Len(b_outcomes) = 3
    /\ b_sleeps = <<2, 4>>

\* C9 (failed builds are invisible to listing): in every state, each folder that
\* list_processed_documents returns is one for which some attempt completed both
\* the index save and the metadata.json write; in particular the folder of a
\* build that failed on every attempt is not returned unless an earlier build
\* completed in it.
C9_FailedBuildsNotListed ==
    /\ \A d \in ListingOf(fs).docs : d[2] \in completed
    /\ \A d \in listing.docs : d[2] \in completed
    /\ (b_pc = "raised" /\ b_folder \notin completed)
          => \A d \in ListingOf(fs).docs : d[2] # b_folder

\* A build failed on every attempt, the last one in the metadata write, and a
\* listing made afterwards returned another, completed folder.
C9_Witness ==
    /\ b_pc = "raised"
    /\ b_exc = "meta_open_fail"
    /\ fs[b_folder].index.state = "ok"
    /\ b_folder \notin completed
    /\ listing.docs # {}
    /\ listing = ListingOf(fs)

\* C10 (folder identifier uniqueness): any two calls of save_vector_store that
\* return, return different folder identifiers.
C10_FolderIdsUnique ==
    \A i, j \in DOMAIN returned : i # j => returned[i] # returned[j]

----------------------------------------------------------------------------
(* Claims about the aggregator (checked under SpecRag) *)

RaisedAt == {i \in DOMAIN rag_log : rag_log[i].raised}
AnsweredAt == {i \in DOMAIN rag_log : ~rag_log[i].raised}

\* C6 (aggregator partial failure): whatever subset F of the five questions
\* raises, get_rag_content does not raise, asks all five questions in order
\* (a failure never stops the later ones), and returns a map whose keys are
\* exactly the sections outside F whose answer was storable (not empty and
\* without the "not available in the context" phrase), each with its answer.
C6_AggregatorPartialFailure ==
    /\ ~rag_raised
    /\ \A i \in DOMAIN rag_log : rag_log[i].key = Keys[i]
    /\ rag_pc = "loop" => Len(rag_log) = rag_i - 1
    /\ DOMAIN rag_content \subseteq {Keys[i] : i \in AnsweredAt}
    /\ rag_pc = "returned"
          => /\ Len(rag_log) = 5
             /\ DOMAIN rag_content =
                    {Keys[i] : i \in {j \in AnsweredAt :
                        /\ rag_log[j].answer # <<>>
                        /\ \A n \in DOMAIN rag_log[j].answer :
                              rag_log[j].answer[n] # Phrase}}
             /\ \A i \in AnsweredAt :
                    Keys[i] \in DOMAIN rag_content => rag_content[Keys[i]] = rag_log[i].answer
             /\ Cardinality(DOMAIN rag_content) <= 5 - Cardinality(RaisedAt)

\* Questions 2 and 4 raised and the call returned a 3-entry map.
C6_Witness ==
    /\ rag_pc = "returned"
    /\ RaisedAt = {2, 4}
    /\ Cardinality(DOMAIN rag_content) = 3

\* All five questions raised and the call returned the empty map.
C6_WitnessAllFail ==
    /\ rag_pc = "returned"
    /\ RaisedAt = {1, 2, 3, 4, 5}
    /\ rag_content = <<>>

\* C7 as stated (sentinel exclusion by equality): every answer that is not the
\* sentinel is stored under its key, and the sentinel is never stored.
C7_StoredUnlessEqualsSentinel ==
    /\ \A i \in AnsweredAt :
          rag_log[i].answer # Sentinel
              => /\ Keys[i] \in DOMAIN rag_content
                 /\ rag_content[Keys[i]] = rag_log[i].answer
    /\ \A k \in DOMAIN rag_content : rag_content[k] # Sentinel

\* C7 as amended: an answer is stored under its key unless it is empty or
\* contains the phrase "not available in the context" (the sentinel contains
\* it); every other answer is stored, and the sentinel is never stored.
C7_StoredUnlessEmptyOrHasPhrase ==
    /\ \A i \in AnsweredAt :
          LET a == rag_log[i].answer
              excluded == a = <<>> \/ \E n \in DOMAIN a : a[n] = Phrase
          IN  /\ ~excluded => /\ Keys[i] \in DOMAIN rag_content
                              /\ rag_content[Keys[i]] = a
              /\ excluded => Keys[i] \notin DOMAIN rag_content
    /\ \A k \in DOMAIN rag_content : rag_content[k] # Sentinel

\* The sentinel, an answer that embeds the phrase, and a plain answer were
\* returned for the first three questions; only the plain one is in the map.
C7_Witness ==
    /\ Len(rag_log) >= 3
    /\ {1, 2, 3} \subseteq AnsweredAt
    /\ rag_log[1].answer = Sentinel
    /\ Contains(<<Phrase>>, rag_log[2].answer) /\ rag_log[2].answer # Sentinel
    /\ rag_log[3].answer = <<"Three phases.">>
    /\ DOMAIN rag_content = {Keys[3]}

----------------------------------------------------------------------------
(* C11: a question about a folder with no index directory, or with no
   metadata.json, fails. *)

\* C11: answer_question returns an answer only for a folder whose directory
\* exists and holds a metadata.json; asked about any other folder, it raises.
\* (Refuted: load_vector_store reads the index files alone, so a folder that a
\* build left with its index and without metadata.json is answered.)
C11_IndexNotFound ==
    qa_pc = "returned" =>
        /\ fs[qa_folder].dir
        /\ fs[qa_folder].meta.state # "none"

----------------------------------------------------------------------------
(* C13: the index of a folder is loaded from disk at most once per process. *)

\* C13: whatever the sequence of questions from the chat path (chatbot) and the
\* generation path (generate_doc_ui), FAISS.load_local returns the index of any
\* one folder at most once. (Refuted: each module decorates its own
\* load_vector_store, so each keeps its own cache and loads the folder once.)
C13_LoadedAtMostOnce == \A f \in FolderIds : loads[f] <= 1

----------------------------------------------------------------------------
(* C14: transient failures on the question path end in an empty answer. *)

\* C14: an answer_question call whose every attempt met a provider failure
\* ends by returning the empty output; it does not raise. (Refuted: the third
\* failure is re-raised by generate_doc_ui, the first by chatbot.)
C14_TransientDowngraded ==
    ( /\ qa_pc \in {"returned", "raised"}
      /\ \A i \in 1..Len(qa_outcomes) : qa_outcomes[i].how = "chain_fail" )
    => ( qa_pc = "returned" /\ qa_result = <<>> )

----------------------------------------------------------------------------
(* C12: a missing index is a hard failure of get_rag_content. *)

\* C12: get_rag_content, called for a folder that holds no loadable index, ends
\* by raising to its caller; it does not return a content map. (Refuted: the
\* failure of every question is caught inside the loop and the empty map is
\* returned.)
C12_IndexNotFoundPropagates ==
    (rag_pc = "returned" /\ ~Loadable(fs[rag_folder])) => rag_raised

----------------------------------------------------------------------------
(* C15: one agent run is one invoke, over the whole document. *)

RECURSIVE InOrder(_)
\* The chunks one after the other, a blank line between neighbours.
InOrder(chunks) ==
    IF chunks = <<>> THEN <<>>
    ELSE IF Len(chunks) = 1 THEN Head(chunks)
    ELSE Head(chunks) \o <<"\n\n">> \o InOrder(Tail(chunks))

\* C15: an agent run started through run_agent_single, on none, one or several
\* chunks, calls agent.invoke exactly once, with the document made of all the
\* chunks in their order; the model client is entered once for the run.
C15_SingleDispatch ==
    r_pc # "none" =>
        /\ Len(r_invokes) = 1
        /\ r_invokes[1] = InOrder(r_chunks)
        /\ g_pc # "idle"

C15_Witness ==
    /\ r_pc = "shown"
    /\ r_chunks = <<<<"a">>, <<"b">>, <<"c">>>>
    /\ r_invokes = << <<"a", "\n\n", "b", "\n\n", "c">> >>
    /\ g_end = "success"

C15_WitnessNoChunks ==
    /\ r_pc = "shown"
    /\ r_chunks = <<>>
    /\ r_invokes = << <<>> >>

----------------------------------------------------------------------------
(* C16: a document too long for the model is reported as an error. *)

\* C16: when every model call of an agent run was rejected because the prompt
\* exceeds the context window, the interaction layer shows an error once the run
\* is over. (Refuted: call_gemini treats the rejection as any other exception,
\* retries it, and returns "" which is shown as a result.)
C16_OversizedSurfaced ==
    ( /\ r_pc = "shown"
      /\ outcomes # <<>>
      /\ \A i \in DOMAIN outcomes : outcomes[i] = ExcEvent(OversizedMsg) )
    => "error" \in ui

----------------------------------------------------------------------------
(* C17: parse_file and unsupported formats. *)

\* The parser each file name calls for, by its extension without regard to
\* case ("none": the format is not supported).
ExpectedParser(name) ==
    CASE name = <<"r", ".", "p", "d", "f">> -> "parse_pdf"
      [] name = <<"r", ".", "P", "D", "F">> -> "parse_pdf"
      [] name = <<"r", ".", "P", "d", "f">> -> "parse_pdf"
      [] name = <<"r", ".", "d", "o", "c", "x">> -> "parse_docx"
      [] name = <<"r", ".", "D", "O", "C", "X">> -> "parse_docx"
      [] name = <<"r", ".", "p", "d", "f", ".", "d", "o", "c", "x">> -> "parse_docx"
      [] OTHER -> "none"

\* C17: parse_file raises the unsupported-format error exactly when the
\* lower-cased extension is neither .pdf nor .docx, and then calls no parser;
\* otherwise it calls the parser of the extension once, and an error raised by
\* that parser reaches the caller as it was raised.
C17_UnsupportedFormat ==
    (x_pc = "done" /\ x_op = "parse_file") =>
        LET want == ExpectedParser(x_name)
        IN  /\ (x_exc = UnsupportedFormat) <=> (want = "none")
            /\ want = "none" => x_calls = <<>>
            /\ want # "none" => x_calls = <<want>>
            /\ (want # "none" /\ x_broken) =>
                   x_exc = (IF want = "parse_docx" THEN "docx: PackageNotFoundError"
                                                   ELSE "fitz: FileDataError")
            /\ (want # "none" /\ ~x_broken) => x_exc = "none"

C17_Witness ==
    /\ x_pc = "done"
    /\ x_op = "parse_file"
    /\ x_name = <<"r", ".", "P", "D", "F">>
    /\ x_broken
    /\ x_calls = <<"parse_pdf">>
    /\ x_exc = "fitz: FileDataError"

C17_WitnessUnsupported ==
    /\ x_pc = "done"
    /\ x_op = "parse_file"
    /\ x_name = <<"r", ".", "t", "x", "t">>
    /\ x_calls = <<>>
    /\ x_exc = UnsupportedFormat

----------------------------------------------------------------------------
(* C18: the text of a PDF is its pages' texts, one per line. *)

RECURSIVE PagesByNewline(_)
\* The texts of the pages in page order, a newline between neighbours.
PagesByNewline(pages) ==
    IF pages = <<>> THEN <<>>
    ELSE IF Len(pages) = 1 THEN pages[1].text
    ELSE pages[1].text \o <<"\n">> \o PagesByNewline(Tail(pages))

\* C18: the text extracted from one PDF, by parse_file (through parse_pdf) and
\* by get_pdf_text alike, is the texts of its pages in order with a newline
\* between consecutive pages. (Refuted: get_pdf_text appends the page texts with
\* nothing between them.)
C18_PdfExtraction ==
    ( /\ x_pc = "done"
      /\ x_exc = "none"
      /\ Len(x_docs) = 1
      /\ x_op = "get_pdf_text" \/ x_calls = <<"parse_pdf">> )
    => x_result = PagesByNewline(x_docs[1])

----------------------------------------------------------------------------
(* C19: the chunks, without their overlaps, give the text back. *)

\* A text without its whitespace.
Squeeze(t) == SelectSeq(t, LAMBDA ch : ch \notin {" ", "\n"})

RECURSIVE Reconstructs(_, _, _, _)
\* Whether the chunks, each shorn of some overlap with its predecessor prev (of
\* at most max characters), spell out rest one after the other.
Reconstructs(chunks, prev, rest, max) ==
    IF chunks = <<>> THEN rest = <<>>
    ELSE LET c == Squeeze(Head(chunks))
         IN  \E k \in 0..Len(c) :
                 /\ k <= max
                 /\ k <= Len(prev)
                 /\ SubSeq(c, 1, k) = SubSeq(prev, Len(prev) - k + 1, Len(prev))
                 /\ Len(c) - k <= Len(rest)
                 /\ SubSeq(c, k + 1, Len(c)) = SubSeq(rest, 1, Len(c) - k)
                 /\ Reconstructs(Tail(chunks), c,
                                 SubSeq(rest, Len(c) - k + 1, Len(rest)), max)

\* C19: for every text and every chunk_overlap < chunk_size, the chunks of
\* chunk_text, taken in order and each without its overlap with the chunk
\* before it, spell out the text, whitespace apart: nothing of the text is
\* lost and the chunks follow the order of the text.
C19_ChunkReconstruction ==
    c_pc = "done" => Reconstructs(c_chunks, <<>>, Squeeze(c_text), c_overlap)

C19_Witness ==
    /\ c_pc = "done"
    /\ c_text = <<"a", " ", "b", " ", "a">>
    /\ c_size = 4
    /\ c_overlap = 2
    /\ c_chunks = << <<"a", " ", "b">>, <<"b", " ", "a">> >>

----------------------------------------------------------------------------
(* C20: no chunk is longer than chunk_size. *)

\* C20: every chunk returned by chunk_text is at most chunk_size characters
\* long, a run without separators being cut at chunk_size. (Refuted: "" is not
\* among the separators, so such a run is returned as one chunk.)
C20_ChunkBound ==
    c_pc = "done" => \A i \in DOMAIN c_chunks : Len(c_chunks[i]) <= c_size

----------------------------------------------------------------------------
(* C21: the feedback log is append-only, one record per line. *)

RECURSIVE LinesOf(_, _)
\* The lines of a file: the runs of tokens between line breaks (cur: the line
\* being read).
LinesOf(file, cur) ==
    IF file = <<>> THEN (IF cur = <<>> THEN <<>> ELSE <<cur>>)
    ELSE IF Head(file).v = "\n" THEN <<cur>> \o LinesOf(Tail(file), <<>>)
    ELSE LinesOf(Tail(file), Append(cur, Head(file)))

LogLines == LinesOf(f_log, <<>>)

IsRecordLine(line) ==
    /\ Len(line) >= 2
    /\ line[1] = [k |-> "punct", v |-> "{"]
    /\ line[Len(line)] = [k |-> "punct", v |-> "}"]
    /\ \A i \in 2..(Len(line) - 1) : line[i].k \in {"key", "str"}

C21_Step ==
    LET old == LinesOf(f_log, <<>>)
        new == LinesOf(f_log', <<>>)
    IN  /\ f_calls' \in {f_calls, f_calls + 1}
        /\ f_calls' = f_calls => f_log' = f_log
        /\ f_calls' = f_calls + 1 =>
               /\ Len(new) = Len(old) + 1
               /\ SubSeq(new, 1, Len(old)) = old
               /\ IsRecordLine(new[Len(new)])
               /\ f_log'[Len(f_log')].v = "\n"

\* C21: every step leaves the log as it is or is one log_feedback call, which
\* adds exactly one line, a whole record, after the lines already there and
\* changes none of them; nothing else touches the log.
C21_AppendOnly == [][C21_Step]_vars

C21_Witness ==
    /\ f_calls = 2
    /\ Len(LogLines) = 2
    /\ \E i \in DOMAIN LogLines[1] : LogLines[1][i] = [k |-> "str", v |-> "\\n"]
    /\ LogLines[1] # LogLines[2]

----------------------------------------------------------------------------
(* C22: the fields of a feedback record. *)

\* json.loads on one fragment of a string.
Decoded(x) ==
    CASE x = "\\n" -> "\n"
      [] x = "\\ud83d\\udc4d" -> "U+1F44D"
      [] x = "\\ud83d\\udc4e" -> "U+1F44E"
      [] OTHER -> x

KeysOf(line) ==
    LET ks == SelectSeq(line, LAMBDA t : t.k = "key") IN [i \in DOMAIN ks |-> ks[i].v]

\* The value of the rating field of a record line: the one fragment after its key.
RatingOf(line) ==
    LET i == CHOOSE j \in DOMAIN line : line[j] = [k |-> "key", v |-> "rating"]
    IN  Decoded(line[i + 1].v)

\* C22: every record in the log has exactly the keys timestamp, rfp_file, agent,
\* output, rating, comment, and its rating is "up" or "down". (Refuted: the
\* rating written is the thumbs-up or thumbs-down character.)
C22_RatingDomain ==
    \A n \in DOMAIN LogLines :
        /\ KeysOf(LogLines[n]) =
              <<"timestamp", "rfp_file", "agent", "output", "rating", "comment">>
        /\ RatingOf(LogLines[n]) \in {"up", "down"}

----------------------------------------------------------------------------
(* C30: what the feedback buttons append. *)

CountOf(click) == Cardinality({i \in DOMAIN f_clicks : f_clicks[i] = click})

\* C30: the log holds one positive record per thumbs-up click and nothing
\* else: no script run sees both the thumbs-down and the Submit Feedback click,
\* so no negative record is ever appended, whatever the order of clicks.
C30_NegativeFeedbackNeverLogged ==
    /\ f_calls = CountOf("up")
    /\ Len(LogLines) = CountOf("up")
    /\ \A n \in DOMAIN LogLines : RatingOf(LogLines[n]) = "U+1F44D"

C30_Witness ==
    /\ f_clicks = <<"other", "down", "submit", "up">>
    /\ Len(LogLines) = 1
    /\ RatingOf(LogLines[1]) = "U+1F44D"

C30_WitnessSubmit ==
    /\ f_clicks = <<"other", "down", "submit">>
    /\ f_log = <<>>

----------------------------------------------------------------------------
(* C23: the sections of the proposal take their text from the content map. *)

\* C23: after generate_proposal_document, for each of the five keys, the
\* document holds the map's text when the map has a non-empty text under the
\* key; and no shape of the map makes the call fail. (Refuted: qualifications,
\* implementation and quality_control are never read.)
C23_SectionFallback ==
    p_pc = "returned" =>
        \A i \in DOMAIN Keys :
            (Keys[i] \in DOMAIN p_content /\ p_content[Keys[i]] # <<>>) =>
                \E n \in DOMAIN p_doc : p_doc[n].text = p_content[Keys[i]]

----------------------------------------------------------------------------
(* C24: the longest time one call_gemini call sleeps. *)

RECURSIVE SumSeq(_)
SumSeq(q) == IF q = <<>> THEN 0 ELSE Head(q) + SumSeq(Tail(q))

\* C24: a call with retries=5 and delay=40 never sleeps more than 1240 seconds
\* in total, and when every attempt fails transiently it sleeps 40, 80, 160, 320
\* and 640 seconds in that order, 1240 seconds in total.
C24_WorstCaseBackoff ==
    (g_pc # "idle" /\ retries = 5 /\ delay0 = 40) =>
        /\ SumSeq(sleeps) <= 1240
        /\ (g_pc = "returned" /\ Len(outcomes) = 5 /\ AllTransient) =>
               /\ sleeps = <<40, 80, 160, 320, 640>>
               /\ SumSeq(sleeps) = 1240

C24_Witness ==
    /\ g_pc = "returned"
    /\ retries = 5
    /\ delay0 = 40
    /\ AllTransient
    /\ sleeps = <<40, 80, 160, 320, 640>>

----------------------------------------------------------------------------
(* C27: call_gemini sleeps after its last attempt too. *)

\* C27: sleeps never outnumber provider calls, and a call that used up its
\* retries=N attempts made exactly N provider calls and N sleeps: the N-th
\* sleep, of delay * 2^(N-1), came after the N-th and last attempt.
C27_SleepAfterLastAttempt ==
    /\ Len(sleeps) <= calls
    /\ (g_pc = "returned" /\ g_end = "exhausted") =>
           /\ calls = retries
           /\ Len(sleeps) = retries
           /\ retries >= 1 => sleeps[retries] = delay0 * Pow2(retries - 1)

C27_Witness ==
    /\ g_pc = "returned"
    /\ g_end = "exhausted"
    /\ retries = 2
    /\ calls = 2
    /\ sleeps = <<41, 82>>

(* C28: the retries of answer_question and of load_vector_store multiply.
   One answer_question call makes at most 9 FAISS.load_local calls and sleeps
   at most 24 seconds. Asked about a folder whose index cannot be loaded, it
   makes exactly 9 of them, sleeping 2 and 4 seconds inside each of its 3
   attempts and 2 and 4 seconds between them, and raises; get_rag_content does
   so for each of its 5 questions. *)
C28_WorstCall ==
    [raised |-> TRUE, loadtries |-> 9, sleeps |-> <<2, 4, 2, 2, 4, 4, 2, 4>>]

C28_NestedRetries ==
    /\ q_loadtries <= 9
    /\ q_last.loadtries <= 9
    /\ SumSeq(q_sleeps) <= 24
    /\ SumSeq(q_last.sleeps) <= 24
    /\ (rag_pc # "idle" /\ ~Loadable(fs[rag_folder])) =>
           /\ \A i \in DOMAIN rag_log : rag_log[i].raised
           /\ rag_log # <<>> => q_last = C28_WorstCall
           /\ rag_pc = "returned" => Len(rag_log) = 5

C28_Witness ==
    /\ rag_pc = "returned"
    /\ ~Loadable(fs[rag_folder])
    /\ Len(rag_log) = 5
    /\ q_last = C28_WorstCall
    /\ SumSeq(q_last.sleeps) = 24

(* C25: every build is retried: a build that ends in a failure has been
   attempted 3 times, whichever module's save_vector_store ran it. *)
C25_EveryBuildRetried ==
    (b_pc = "raised" /\ b_exc # "none") => Len(b_outcomes) = 3

(* C26: indexes are never updated in place: a folder that a listing has shown
   as processed is left as it is by every later step. *)
C26_Step ==
    \A f \in FolderIds :
        (<<f[1], f>> \in listing.docs) => fs'[f] = fs[f]

C26_NeverUpdatedInPlace == [][C26_Step]_vars

(* C29: a failed build leaves its directory behind. From the entry of
   save_vector_store on, the directory of the call exists; after a build that
   failed on every attempt, metadata.json was not written by it if no attempt
   reached the metadata write (there is none at all in a directory that no
   earlier build used), and the index files are there if save_local succeeded
   in some attempt. *)
SaveLocalDone == {"meta_open_fail", "meta_write_fail", "ok"}
MetadataWritten == {"meta_write_fail", "ok"}

OutcomesIn(S) == \E i \in DOMAIN b_outcomes : b_outcomes[i] \in S

C29_FailedBuildLeavesDirectory ==
    /\ nbuilds > 0 => fs[b_folder].dir
    /\ \A f \in FolderIds : (fs[f].index.state # "none" \/ fs[f].meta.state # "none")
                                => fs[f].dir
    /\ (b_pc = "raised" /\ ~OutcomesIn({"ok"})) =>
           /\ fs[b_folder].dir
           /\ ~OutcomesIn(MetadataWritten) =>
                  /\ fs[b_folder].meta.by # nbuilds
                  /\ nbuilds = 1 => fs[b_folder].meta.state = "none"
           /\ OutcomesIn(SaveLocalDone) =>
                  /\ fs[b_folder].index.state # "none"
                  /\ fs[b_folder].index.by = nbuilds

\* All three attempts of a build failed, the first after save_local had written
\* the index: the directory is there with the index and without metadata.json.
C29_Witness ==
    /\ b_pc = "raised"
    /\ b_variant = "generate_doc_ui"
    /\ b_outcomes = <<"meta_open_fail", "save_fail", "embed_fail">>
    /\ fs[b_folder].dir
    /\ fs[b_folder].index.state = "ok"
    /\ fs[b_folder].meta.state = "none"

\* The only attempt of a chatbot build failed before writing anything: the
\* directory is there and empty.
C29_WitnessChatbot ==
    /\ b_pc = "raised"
    /\ b_variant = "chatbot"
    /\ b_outcomes = <<"embed_fail">>
    /\ fs[b_folder] = [NoDir EXCEPT !.dir = TRUE]

====
